---- MODULE Spec2Model ----
(***************************************************************************)
(* Model of package ksat (task.go): the concurrent runner List and the     *)
(* sequential fail-fast runner Chain.                                      *)
(*                                                                         *)
(* A List and a Chain share no state, so the client under study owns one   *)
(* runner, of the kind chosen at construction (variable kind), and drives  *)
(* it from a single flow of control (the caller).  Tasks and handlers are  *)
(* opaque invocables: a task returns nil or an error of its choosing, or   *)
(* never returns.                                                          *)
(***************************************************************************)
EXTENDS Naturals, Sequences, FiniteSets, TLC

\* ------------------------------------------------------------------ bounds
MaxChain == 3     \* longest task sequence a Chain holds
MaxArgs == 2      \* most tasks handed to one Chain.Add call
MaxGo == 2        \* tasks registered in (goroutines spawned by) a List

\* ------------------------------------------------------------------ values
Nil == "nil"
Errs == {"x", "y"}
Results == Errs \cup {Nil}
Tasks == {"t1", "t2"}
\* "bg" is a context that is never cancelled, "cc" a cancellable one.
Ctxs == {"bg", "cc"}
\* The (task, handler) pairs the client registers in a List: each task with
\* a handler of its own, and one task also with the other's handler.
Pairs == {<<"t1", "h1">>, <<"t2", "h2">>, <<"t1", "h2">>}
\* The caller's flow of control; goroutine k of a List is flow k >= 1.
Caller == 0

SeqsUpTo(S, n) == UNION {[1..k -> S] : k \in 0..n}

VARIABLES
    kind,       \* "List" or "Chain": the runner the client constructed
    cancelled,  \* whether context "cc" has been cancelled
    l_tasks,    \* List.tasks
    l_run,      \* the frame of List.Run: pc, the ranged-over slice, index, ctx
    l_stale,    \* history: no Add since the previous List.Run was called
    l_hist,     \* history: the pairs passed to List.Add since the last reset
    gs,         \* the goroutines spawned by List.Run, in spawn order
    c_tasks,    \* Chain.tasks
    c_run,      \* the frame of Chain.Run
    c_stale,    \* history: no Add since the previous Chain.Run was called
    c_hist,     \* history: the tasks passed to Chain.Add since the last reset
    c_log,      \* history: the task invocations of the current/last Chain.Run
    c_ret       \* history: what the last completed Chain.Run returned

vars == <<kind, cancelled, l_tasks, l_run, l_stale, l_hist, gs,
          c_tasks, c_run, c_stale, c_hist, c_log, c_ret>>
lvars == <<l_tasks, l_run, l_stale, l_hist, gs>>
cvars == <<c_tasks, c_run, c_stale, c_hist, c_log, c_ret>>

\* The frame of a Run call.  pc, range, i and ctx are the call's own state;
\* reg, stale and base are history, fixed when Run is called: the sequence
\* registered then, whether no Add came since the previous Run was called,
\* and (List) the number of goroutines spawned by earlier calls.  late is
\* history too: the tasks passed to Add while this Run was executing.
IdleFrame ==
    [pc |-> "idle", range |-> <<>>, i |-> 0, ctx |-> "bg",
     reg |-> <<>>, stale |-> FALSE, base |-> 0, late |-> <<>>]

\* A zero-initialized List or Chain: tasks is the nil slice.
Init ==
    /\ kind \in {"List", "Chain"}
    /\ cancelled = FALSE
    /\ l_tasks = <<>>
    /\ l_run = IdleFrame
    /\ l_stale = FALSE
    /\ l_hist = <<>>
    /\ gs = <<>>
    /\ c_tasks = <<>>
    /\ c_run = IdleFrame
    /\ c_stale = FALSE
    /\ c_hist = <<>>
    /\ c_log = <<>>
    /\ c_ret = "none"

\* context cancellation by the client: the runners never look at it.
Cancel ==
    /\ ~cancelled
    /\ cancelled' = TRUE
    /\ UNCHANGED <<kind, lvars, cvars>>

\* ------------------------------------------------------------------- List

\* l.tasks = append(l.tasks, task{t: t, e: e})
ListAppend(tasks, t, e) == Append(tasks, [t |-> t, e |-> e])

\* Mutant: the loop starts at the second element.
ListRangeSkipsFirst(tasks) == IF tasks = <<>> THEN tasks ELSE Tail(tasks)

\* Mutant: the loop walks the slice from its end.
ListRangeBackwards(tasks) == [j \in DOMAIN tasks |-> tasks[Len(tasks) + 1 - j]]

\* for _, tsk := range l.tasks: the range expression is evaluated once.
ListRange(tasks) == tasks

\* Mutant: the goroutine does not take a copy but reads the loop variable
\* shared by the iterations, which ends on the last pair.
SpawnSharesLoopVar(run) ==
    [t |-> run.range[Len(run.range)].t, e |-> run.range[Len(run.range)].e,
     ctx |-> run.ctx, pc |-> "spawned", res |-> "none", hc |-> <<>>]

\* go func(task Task, handler ErrorHandler) {...}(tsk.t, tsk.e): the
\* arguments are evaluated by the go statement, ctx is Run's parameter.
\* res is what the task returned, hc the handler invocations made so far.
Spawn(run) ==
    [t |-> run.range[run.i].t, e |-> run.range[run.i].e, ctx |-> run.ctx,
     pc |-> "spawned", res |-> "none", hc |-> <<>>]

\* History of a goroutine: the Run call that spawned it (batch: the number
\* of goroutines older than that call), the iteration, and the pair and
\* context that iteration was registered and called with.
Origin(run) ==
    [batch |-> run.base, pos |-> run.i, reg |-> run.reg[run.i], arg |-> run.ctx]

\* Mutant: the handler is called whatever the task returned.
GoAfterTaskAlwaysHandles(g, on, err) ==
    [g EXCEPT !.pc = "handler", !.res = err,
              !.hc = Append(g.hc, [h |-> g.e, err |-> err, on |-> on])]

\* Mutant: the failure is handed to the caller, which calls the handler.
GoAfterTaskOnCaller(g, on, err) ==
    IF err # Nil
    THEN [g EXCEPT !.pc = "handler", !.res = err,
                   !.hc = Append(g.hc, [h |-> g.e, err |-> err, on |-> Caller])]
    ELSE [g EXCEPT !.pc = "done", !.res = err]

\* if err := task.Run(ctx); err != nil { handler(err) }, on goroutine `on`:
\* hc records the handler invocations made by this execution.
GoAfterTask(g, on, err) ==
    IF err # Nil
    THEN [g EXCEPT !.pc = "handler", !.res = err,
                   !.hc = Append(g.hc, [h |-> g.e, err |-> err, on |-> on])]
    ELSE [g EXCEPT !.pc = "done", !.res = err]

\* Mutant: Run joins the goroutines it spawned before it returns.
ListMayReturnJoins(run, goroutines) ==
    /\ run.i > Len(run.range)
    /\ \A k \in DOMAIN goroutines :
          goroutines[k].batch = run.base => goroutines[k].pc = "done"

\* Whether List.Run, its loop over, may reset and return.
ListMayReturn(run, goroutines) == run.i > Len(run.range)

\* List.Add, by the caller between Runs.
ListAdd(t, e) ==
    /\ kind = "List"
    /\ l_run.pc = "idle"
    /\ Len(gs) + Len(l_tasks) < MaxGo
    /\ l_tasks' = ListAppend(l_tasks, t, e)
    /\ l_stale' = FALSE
    /\ l_hist' = l_hist \o <<[t |-> t, e |-> e]>>
    /\ UNCHANGED <<kind, cancelled, cvars, l_run, gs>>

\* Mutant: Run first waits for the goroutines of earlier calls.
ListRunCallAfterJoin(ctx) ==
    /\ kind = "List"
    /\ l_run.pc = "idle"
    /\ \A k \in DOMAIN gs : gs[k].pc = "done"
    /\ l_run' = [pc |-> "loop", range |-> ListRange(l_tasks), i |-> 1,
                 ctx |-> ctx, reg |-> l_hist, stale |-> l_stale, base |-> Len(gs),
                 late |-> <<>>]
    /\ l_stale' = TRUE
    /\ UNCHANGED <<kind, cancelled, cvars, l_tasks, l_hist, gs>>

\* List.Run is called.
ListRunCall(ctx) ==
    /\ kind = "List"
    /\ l_run.pc = "idle"
    /\ l_run' = [pc |-> "loop", range |-> ListRange(l_tasks), i |-> 1,
                 ctx |-> ctx, reg |-> l_hist, stale |-> l_stale, base |-> Len(gs),
                 late |-> <<>>]
    /\ l_stale' = TRUE
    /\ UNCHANGED <<kind, cancelled, cvars, l_tasks, l_hist, gs>>

\* One iteration of the loop: the go statement.
ListSpawn ==
    /\ l_run.pc = "loop"
    /\ l_run.i <= Len(l_run.range)
    /\ gs' = Append(gs, Spawn(l_run) @@ Origin(l_run))
    /\ l_run' = [l_run EXCEPT !.i = l_run.i + 1]
    /\ UNCHANGED <<kind, cancelled, cvars, l_tasks, l_stale, l_hist>>

\* Mutant: Run returns without resetting l.tasks.
ListResetKeepsTasks ==
    /\ l_run.pc = "loop"
    /\ ListMayReturn(l_run, gs)
    /\ l_hist' = <<>>
    /\ l_run' = [l_run EXCEPT !.pc = "idle"]
    /\ UNCHANGED <<kind, cancelled, cvars, l_tasks, l_stale, gs>>

\* The loop is over: l.tasks = nil, and Run returns.
ListReset ==
    /\ l_run.pc = "loop"
    /\ ListMayReturn(l_run, gs)
    /\ l_tasks' = <<>>
    /\ l_hist' = <<>>
    /\ l_run' = [l_run EXCEPT !.pc = "idle"]
    /\ UNCHANGED <<kind, cancelled, cvars, l_stale, gs>>

\* Mutant: executions are serialised, a goroutine starts only when every
\* goroutine spawned before it is done.
GoStartInTurn(k) ==
    /\ gs[k].pc = "spawned"
    /\ \A j \in 1..(k - 1) : gs[j].pc = "done"
    /\ gs' = [gs EXCEPT ![k].pc = "task"]
    /\ UNCHANGED <<kind, cancelled, cvars, l_tasks, l_run, l_stale, l_hist>>

\* Goroutine k is scheduled and calls task.Run(ctx).
GoStart(k) ==
    /\ gs[k].pc = "spawned"
    /\ gs' = [gs EXCEPT ![k].pc = "task"]
    /\ UNCHANGED <<kind, cancelled, cvars, l_tasks, l_run, l_stale, l_hist>>

\* Mutant: handlers run under a lock shared by the goroutines, so a failed
\* task's goroutine waits while another goroutine's handler is executing.
GoTaskReturnLocked(k, err) ==
    /\ gs[k].pc = "task"
    /\ err # Nil => \A j \in DOMAIN gs : gs[j].pc # "handler"
    /\ gs' = [gs EXCEPT ![k] = GoAfterTask(gs[k], k, err)]
    /\ UNCHANGED <<kind, cancelled, cvars, l_tasks, l_run, l_stale, l_hist>>

\* The task of goroutine k returns err.
GoTaskReturn(k, err) ==
    /\ gs[k].pc = "task"
    /\ gs' = [gs EXCEPT ![k] = GoAfterTask(gs[k], k, err)]
    /\ UNCHANGED <<kind, cancelled, cvars, l_tasks, l_run, l_stale, l_hist>>

\* The handler called by goroutine k returns.
GoHandlerReturn(k) ==
    /\ gs[k].pc = "handler"
    /\ gs' = [gs EXCEPT ![k].pc = "done"]
    /\ UNCHANGED <<kind, cancelled, cvars, l_tasks, l_run, l_stale, l_hist>>

ListNext ==
    \/ \E p \in Pairs : ListAdd(p[1], p[2])
    \/ \E ctx \in Ctxs : ListRunCall(ctx)
    \/ ListSpawn
    \/ ListReset
    \/ \E k \in DOMAIN gs : GoStart(k)
    \/ \E k \in DOMAIN gs, err \in Results : GoTaskReturn(k, err)
    \/ \E k \in DOMAIN gs : GoHandlerReturn(k)

\* ------------------------------------------------------------------ Chain

\* Mutant: the new tasks are put in front.
ChainPrepend(tasks, ts) == ts \o tasks

\* c.tasks = append(c.tasks, t...)
ChainAppend(tasks, ts) == tasks \o ts

\* for _, tsk := range c.tasks: the range expression is evaluated once.
ChainRange(tasks) == tasks

\* Mutant: go tsk.Run(ctx), the loop goes on without waiting.
ChainEnterNoWait(run) == [run EXCEPT !.i = run.i + 1]

\* The frame once tsk.Run(ctx) has been entered: Run waits for it.
ChainEnter(run) == [run EXCEPT !.pc = "task"]

\* Mutant: the error is dropped and the loop goes on.
ChainAfterTaskIgnoresErr(run, err) == [run EXCEPT !.pc = "loop", !.i = run.i + 1]

\* if err := tsk.Run(ctx); err != nil { return err }
ChainAfterTask(run, err) ==
    IF err # Nil THEN [run EXCEPT !.pc = "idle"]
    ELSE [run EXCEPT !.pc = "loop", !.i = run.i + 1]

\* Mutant: an error value is returned after the loop.
ChainLoopResultErr(run) == "x"

\* What Run returns when the loop has run off the end of the slice.
ChainLoopResult(run) == Nil

\* Chain.Add, by the caller between Runs or by the task Run is executing
\* (the same flow of control).
ChainAdd(ts) ==
    /\ kind = "Chain"
    /\ c_run.pc \in {"idle", "task"}
    /\ Len(c_tasks) + Len(ts) <= MaxChain
    /\ c_tasks' = ChainAppend(c_tasks, ts)
    /\ c_stale' = FALSE
    /\ c_hist' = c_hist \o ts
    /\ c_run' = IF c_run.pc = "task" THEN [c_run EXCEPT !.late = @ \o ts]
                 ELSE c_run
    /\ UNCHANGED <<kind, cancelled, lvars, c_log, c_ret>>

\* Chain.Run is called.
ChainRunCall(ctx) ==
    /\ kind = "Chain"
    /\ c_run.pc = "idle"
    /\ c_run' = [pc |-> "loop", range |-> ChainRange(c_tasks), i |-> 1,
                 ctx |-> ctx, reg |-> c_hist, stale |-> c_stale, base |-> 0,
                 late |-> <<>>]
    /\ c_stale' = TRUE
    /\ c_log' = <<>>
    /\ c_ret' = "none"
    /\ UNCHANGED <<kind, cancelled, lvars, c_tasks, c_hist>>

\* Mutant: the loop indexes c.tasks afresh on every iteration instead of
\* ranging over the slice as it was when Run started.
ChainInvokeLive ==
    /\ c_run.pc = "loop"
    /\ c_run.i <= Len(c_tasks)
    /\ c_log' = Append(c_log, [t |-> c_tasks[c_run.i], ctx |-> c_run.ctx,
                               res |-> "running"])
    /\ c_run' = ChainEnter(c_run)
    /\ UNCHANGED <<kind, cancelled, lvars, c_tasks, c_stale, c_hist, c_ret>>

\* Mutant: the loop checks ctx.Err() before each task and does not call the
\* task of a cancelled context.
ChainInvokeUnlessCancelled ==
    /\ c_run.pc = "loop"
    /\ c_run.i <= Len(c_run.range)
    /\ ~(c_run.ctx = "cc" /\ cancelled)
    /\ c_log' = Append(c_log, [t |-> c_run.range[c_run.i], ctx |-> c_run.ctx,
                               res |-> "running"])
    /\ c_run' = ChainEnter(c_run)
    /\ UNCHANGED <<kind, cancelled, lvars, c_tasks, c_stale, c_hist, c_ret>>

\* The loop takes the next task and calls tsk.Run(ctx).
ChainInvoke ==
    /\ c_run.pc = "loop"
    /\ c_run.i <= Len(c_run.range)
    /\ c_log' = Append(c_log, [t |-> c_run.range[c_run.i], ctx |-> c_run.ctx,
                               res |-> "running"])
    /\ c_run' = ChainEnter(c_run)
    /\ UNCHANGED <<kind, cancelled, lvars, c_tasks, c_stale, c_hist, c_ret>>

\* The running task returns err; a non-nil err is returned by Run at once.
ChainTaskReturn(err) ==
    /\ c_run.pc = "task"
    /\ c_log' = [c_log EXCEPT ![Len(c_log)].res = err]
    /\ c_run' = ChainAfterTask(c_run, err)
    /\ c_ret' = IF c_run'.pc = "idle" THEN err ELSE c_ret
    /\ UNCHANGED <<kind, cancelled, lvars, c_tasks, c_stale, c_hist>>

\* The loop is over: c.tasks = nil; return nil.
ChainFinish ==
    /\ c_run.pc = "loop"
    /\ c_run.i > Len(c_run.range)
    /\ c_tasks' = <<>>
    /\ c_hist' = <<>>
    /\ c_ret' = ChainLoopResult(c_run)
    /\ c_run' = [c_run EXCEPT !.pc = "idle"]
    /\ UNCHANGED <<kind, cancelled, lvars, c_stale, c_log>>

ChainNext ==
    \/ \E ts \in SeqsUpTo(Tasks, MaxArgs) : ChainAdd(ts)
    \/ \E ctx \in Ctxs : ChainRunCall(ctx)
    \/ ChainInvoke
    \/ \E err \in Results : ChainTaskReturn(err)
    \/ ChainFinish

Next ==
    \/ Cancel
    \/ ListNext
    \/ ChainNext

Spec == Init /\ [][Next]_vars

\* The Go scheduler runs every runnable goroutine: a spawned goroutine
\* eventually enters its function.  Nothing makes a task or a handler
\* return, and nothing makes the client call anything.
FairSpec ==
    Spec /\ \A k \in 1..MaxGo : WF_vars(k \in DOMAIN gs /\ GoStart(k))

\* ------------------------------------------------------------- properties

\* Chain.Run has been called and has returned.
ChainReturned == kind = "Chain" /\ c_run.pc = "idle" /\ c_ret # "none"

\* The tasks Chain.Run has invoked so far, in order of invocation.
ChainInvoked == [j \in DOMAIN c_log |-> c_log[j].t]

\* The goroutines spawned by the current/last List.Run call.
Batch == {k \in DOMAIN gs : gs[k].batch = l_run.base}

\* List.Run has returned and Add has not been called since.
ListJustReturned == kind = "List" /\ l_run.pc = "idle" /\ l_stale

\* C1: fail-fast. In every Chain.Run the tasks invoked so far are a prefix of
\* the sequence registered when Run was called, each invoked once and in
\* order; every invoked task but the last has returned nil; and as soon as
\* a task returns an error, Run has returned exactly that error, so the
\* tasks after the first failing one are never invoked.
C1_FailFast ==
    kind = "Chain" =>
        /\ Len(c_log) <= Len(c_run.reg)
        /\ ChainInvoked = SubSeq(c_run.reg, 1, Len(c_log))
        /\ \A j \in 1..(Len(c_log) - 1) : c_log[j].res = Nil
        /\ \A j \in DOMAIN c_log :
              c_log[j].res \in Errs =>
                  /\ j = Len(c_log)
                  /\ c_run.pc = "idle"
                  /\ c_ret = c_log[j].res
        /\ (ChainReturned /\ c_ret \in Errs) =>
              /\ c_log # <<>>
              /\ c_log[Len(c_log)].res = c_ret

\* Scenario B: [succeed, fail, succeed]; the third task never runs.
C1_Witness ==
    /\ ChainReturned
    /\ Len(c_run.reg) = 3
    /\ Len(c_log) = 2
    /\ c_log[1].res = Nil
    /\ c_log[2].res = "x"
    /\ c_ret = "x"

\* C2: once Chain.Run has returned, with nil or with an error (and Add has
\* not been called since Run was called), the Chain's task sequence is empty.
C2_ClearedAfterRun ==
    (ChainReturned /\ c_stale) => c_tasks = <<>>

\* C3: reset property. A Run called after an earlier Run with no Add in
\* between (stale) invokes no task: List.Run spawns no goroutine, Chain.Run
\* calls no task.
C3_ResetProperty ==
    /\ (kind = "List" /\ l_run.stale) => Batch = {}
    /\ (kind = "Chain" /\ c_run.stale) => c_log = <<>>

\* C4: when List.Run has gone through its loop, it has spawned exactly one
\* goroutine per pair registered, holding that pair, and when it has
\* returned the List holds no task, whatever the goroutines have done.
C4_SpawnsAllAndResets ==
    kind = "List" =>
        /\ Len(gs) = l_run.base + (IF l_run.pc = "loop" THEN l_run.i - 1
                                   ELSE Len(l_run.reg))
        /\ \A k \in Batch :
              /\ k = l_run.base + gs[k].pos
              /\ gs[k].pos \in DOMAIN l_run.reg
              /\ gs[k].t = l_run.reg[gs[k].pos].t
              /\ gs[k].e = l_run.reg[gs[k].pos].e
        /\ ListJustReturned => l_tasks = <<>>

\* Run has returned, two goroutines are spawned and neither has started.
C4_Witness ==
    /\ ListJustReturned
    /\ l_tasks = <<>>
    /\ Len(l_run.reg) = 2
    /\ Cardinality(Batch) = 2
    /\ \A k \in Batch : gs[k].pc = "spawned"

\* C5: a goroutine whose task returned an error has called the handler
\* registered with that task exactly once, with that error; a goroutine
\* whose task returned nil, or has not returned, has called no handler.
C5_HandlerOnFailureOnly ==
    \A k \in DOMAIN gs :
        /\ gs[k].res \in Errs =>
              /\ Len(gs[k].hc) = 1
              /\ gs[k].hc[1].h = gs[k].reg.e
              /\ gs[k].hc[1].err = gs[k].res
        /\ gs[k].res \notin Errs => gs[k].hc = <<>>
        /\ gs[k].res = "none" <=> gs[k].pc \in {"spawned", "task"}

\* Scenario C: one task succeeded, the other failed with "y"; both are done.
C5_Witness ==
    /\ Len(gs) = 2
    /\ gs[1].pc = "done" /\ gs[1].res = Nil /\ gs[1].reg.e = "h1"
    /\ gs[2].pc = "done" /\ gs[2].res = "y" /\ gs[2].reg.e = "h2"

\* C6: List.Run never waits: while Run is in its loop, its next step (spawn
\* the next goroutine, or reset and return) is enabled whatever the
\* goroutines are doing.
C6_RunNeverWaits ==
    (kind = "List" /\ l_run.pc = "loop") => ENABLED (ListSpawn \/ ListReset)

\* Run is about to return while a goroutine it spawned is inside its task
\* and another has not started.
C6_Witness ==
    /\ kind = "List"
    /\ l_run.pc = "loop"
    /\ l_run.i > Len(l_run.range)
    /\ \E k \in Batch : gs[k].pc = "task"
    /\ \E k \in Batch : gs[k].pc = "spawned"

\* C7: a Chain.Run that returned nil has invoked exactly the tasks passed
\* to Add before the call, once each, in the order of the Add calls and of
\* their arguments, and each returned nil.
C7_AllInOrder ==
    (ChainReturned /\ c_ret = Nil) =>
        /\ ChainInvoked = c_run.reg
        /\ \A j \in DOMAIN c_log : c_log[j].res = Nil

\* Scenario A with distinguishable tasks: three tasks ran, in order.
C7_Witness ==
    /\ ChainReturned
    /\ c_ret = Nil
    /\ c_run.reg = <<"t1", "t2", "t1">>
    /\ Len(c_log) = 3

\* C8: in a Chain.Run at most one task is executing, and it is the last one
\* invoked; a task is executing exactly while Run is inside the call; so
\* no task starts before the previous one returned and Run does not return
\* while a task is executing.
C8_NoOverlap ==
    kind = "Chain" =>
        /\ \A j \in DOMAIN c_log : c_log[j].res = "running" => j = Len(c_log)
        /\ (\E j \in DOMAIN c_log : c_log[j].res = "running") <=> c_run.pc = "task"

\* The second task is executing, the first has returned.
C8_Witness ==
    /\ kind = "Chain"
    /\ c_run.pc = "task"
    /\ Len(c_log) = 2
    /\ c_log[1].res = Nil
    /\ c_log[2].res = "running"

\* C9: Run on an empty runner is a no-op. A List.Run called with nothing
\* registered spawns no goroutine and leaves the List empty; a Chain.Run
\* called with nothing registered invokes no task, returns nil and leaves
\* the Chain empty.
C9_EmptyRunNoOp ==
    /\ (kind = "List" /\ l_run.reg = <<>>) =>
          /\ Batch = {}
          /\ ListJustReturned => l_tasks = <<>>
    /\ (kind = "Chain" /\ c_run.reg = <<>>) =>
          /\ c_log = <<>>
          /\ c_run.pc # "task"
          /\ ChainReturned => c_ret = Nil
          /\ (ChainReturned /\ c_stale) => c_tasks = <<>>

\* Run on a zero-initialized Chain has returned.
C9_Witness ==
    /\ ChainReturned
    /\ c_run.reg = <<>>
    /\ ~c_run.stale
    /\ c_stale
    /\ c_tasks = <<>>

\* Run on a zero-initialized List has returned.
C9_WitnessList ==
    /\ ListJustReturned
    /\ l_run.reg = <<>>
    /\ ~l_run.stale
    /\ gs = <<>>

\* C10: no failure reaches the caller of List.Run. Every handler call is
\* made by the goroutine that ran the failing task, never by the caller,
\* and what the caller sees when Run has returned (Run has no result, the
\* List is empty) is the same whatever the tasks returned.
C10_FailuresStayOffCaller ==
    kind = "List" =>
        /\ \A k \in DOMAIN gs :
              \A n \in DOMAIN gs[k].hc :
                  /\ gs[k].hc[n].on = k
                  /\ gs[k].hc[n].on # Caller
        /\ ListJustReturned => l_tasks = <<>>

\* Run has returned; one task of the batch failed and its handler is
\* running on its goroutine, the other returned nil.
C10_Witness ==
    /\ ListJustReturned
    /\ l_tasks = <<>>
    /\ \E k \in Batch : gs[k].pc = "handler" /\ gs[k].res = "x"
    /\ \E k \in Batch : gs[k].pc = "done" /\ gs[k].res = Nil

\* Goroutine k exists and has called its task.
Invoked(k) == k \in DOMAIN gs /\ gs[k].pc # "spawned"

\* C11: isolation. A spawned goroutine can always start its task, and a
\* task that has been called can always return nil, whatever the other
\* goroutines of the batch are doing (failed, blocked in their task or in
\* their handler); and under fair scheduling of the goroutines every
\* spawned goroutine eventually calls its task.
C11_Isolated ==
    /\ [](\A k \in DOMAIN gs :
            /\ gs[k].pc = "spawned" => ENABLED GoStart(k)
            /\ gs[k].pc = "task" => ENABLED GoTaskReturn(k, Nil))
    /\ \A k \in 1..MaxGo : (k \in DOMAIN gs) ~> Invoked(k)

\* The first task of a batch is blocked in its call; the second, spawned
\* after it, has been invoked and has finished.
C11_Witness ==
    /\ Len(gs) = 2
    /\ gs[1].batch = gs[2].batch
    /\ gs[1].pc = "task"
    /\ gs[2].pc = "done"

\* The first task of a batch failed; the second has been invoked since.
C11_WitnessFailed ==
    /\ Len(gs) = 2
    /\ gs[1].batch = gs[2].batch
    /\ gs[1].res \in Errs
    /\ gs[2].pc = "done"

\* The (task, handler) pairs held by the goroutines of the current/last
\* List.Run, in the order they were spawned.
Launched ==
    [j \in 1..(Len(gs) - l_run.base) |->
        [t |-> gs[l_run.base + j].t, e |-> gs[l_run.base + j].e]]

\* C12: launch order. At every moment of a List.Run the goroutines it has
\* spawned so far hold, in spawn order, the first pairs registered, in
\* registration order: the pair added i-th is spawned before the pair
\* added (i+1)-th.  (Completion order is free: see the witnesses.)
C12_LaunchOrder ==
    kind = "List" =>
        /\ Len(Launched) <= Len(l_run.reg)
        /\ Launched = SubSeq(l_run.reg, 1, Len(Launched))

\* The pair registered second has completed while the pair registered
\* first, spawned before it, has not even started.
C12_Witness ==
    /\ Len(gs) = 2
    /\ gs[1].batch = gs[2].batch
    /\ gs[1].reg # gs[2].reg
    /\ gs[1].pc = "spawned"
    /\ gs[2].pc = "done"

\* The other completion order: the first has completed, the second not.
C12_WitnessInOrder ==
    /\ Len(gs) = 2
    /\ gs[1].batch = gs[2].batch
    /\ gs[1].reg # gs[2].reg
    /\ gs[1].pc = "done"
    /\ gs[2].pc = "spawned"

\* Only the first pair is spawned so far; Run is still in its loop.
C12_WitnessMidLoop ==
    /\ kind = "List"
    /\ l_run.pc = "loop"
    /\ Len(l_run.reg) = 2
    /\ Len(Launched) = 1
    /\ gs[l_run.base + 1].pc = "done"

\* C13: handlers are not serialised. A goroutine whose task fails enters
\* its handler at once, also while the handler of another goroutine is
\* executing: the step is enabled in every state where the task is running.
\* So two handlers of one batch executing together is reachable.
C13_HandlersNotSerialised ==
    \A k \in DOMAIN gs :
        gs[k].pc = "task" => \A err \in Errs : ENABLED GoTaskReturn(k, err)

\* Both tasks of one batch failed and both handlers are executing.
C13_Witness ==
    /\ Len(gs) = 2
    /\ gs[1].batch = gs[2].batch
    /\ gs[1].pc = "handler"
    /\ gs[2].pc = "handler"
    /\ Len(gs[1].hc) = 1
    /\ Len(gs[2].hc) = 1

\* C14: batches overlap. List.Run can be called whenever the caller is
\* between calls, and its loop can spawn, whatever the goroutines of
\* earlier calls are doing, and the goroutines of an earlier call keep
\* their place; so tasks of two batches running together is reachable.
C14_BatchesOverlap ==
    kind = "List" =>
        /\ l_run.pc = "idle" => \A ctx \in Ctxs : ENABLED ListRunCall(ctx)
        /\ (l_run.pc = "loop" /\ l_run.i <= Len(l_run.range)) => ENABLED ListSpawn
        /\ \A k \in DOMAIN gs : gs[k].batch <= l_run.base

\* Run returned, Add and a second Run followed; a task of the first batch
\* and a task of the second are both inside their call.
C14_Witness ==
    /\ Len(gs) = 2
    /\ gs[1].batch = 0
    /\ gs[2].batch = 1
    /\ gs[1].pc = "task"
    /\ gs[2].pc = "task"

\* C15: the runners do not enforce cancellation. Whether or not the context
\* is cancelled, List.Run's loop can spawn its next goroutine and
\* Chain.Run's loop can call its next task; a Chain.Run that returned
\* without having invoked every registered task returned a task's error;
\* and every task is called with the context Run was called with.
C15_CancellationNotEnforced ==
    /\ kind = "List" =>
          /\ (l_run.pc = "loop" /\ l_run.i <= Len(l_run.range)) => ENABLED ListSpawn
          /\ \A k \in DOMAIN gs : gs[k].ctx = gs[k].arg
    /\ kind = "Chain" =>
          /\ (c_run.pc = "loop" /\ c_run.i <= Len(c_run.range)) => ENABLED ChainInvoke
          /\ \A j \in DOMAIN c_log : c_log[j].ctx = c_run.ctx
          /\ (ChainReturned /\ Len(c_log) < Len(c_run.reg)) =>
                /\ c_ret \in Errs
                /\ c_log[Len(c_log)].res = c_ret

\* Chain.Run, called with the cancellable context, which is cancelled, has
\* invoked all three tasks with it and returned nil.
C15_Witness ==
    /\ ChainReturned
    /\ cancelled
    /\ c_run.ctx = "cc"
    /\ c_ret = Nil
    /\ Len(c_run.reg) = 3
    /\ Len(c_log) = 3
    /\ \A j \in DOMAIN c_log : c_log[j].ctx = "cc"

\* The context is cancelled and Chain.Run, called with it, is about to
\* call its first task.
C15_WitnessCancelledBefore ==
    /\ kind = "Chain"
    /\ cancelled
    /\ c_run.ctx = "cc"
    /\ c_run.pc = "loop"
    /\ c_run.i = 1
    /\ Len(c_run.range) = 3

\* List.Run, called with the cancelled context, has spawned both tasks,
\* and both have been called with it.
C15_WitnessList ==
    /\ ListJustReturned
    /\ cancelled
    /\ l_run.ctx = "cc"
    /\ Cardinality(Batch) = 2
    /\ \A k \in Batch : gs[k].ctx = "cc" /\ gs[k].pc = "task"

\* C16: a List execution is fixed at launch. At every moment, whatever
\* resets, Adds and Runs have happened since, a goroutine holds the task
\* and the handler of the pair it was spawned for, and the handler it has
\* called is that one; and a Run ranges over exactly the pairs added since
\* the previous Run returned, so no registration is launched twice.
C16_FixedAtLaunch ==
    kind = "List" =>
        /\ \A k \in DOMAIN gs :
              /\ gs[k].t = gs[k].reg.t
              /\ gs[k].e = gs[k].reg.e
              /\ \A n \in DOMAIN gs[k].hc : gs[k].hc[n].h = gs[k].reg.e
        /\ l_run.pc = "loop" => l_run.range = l_run.reg
        /\ l_run.pc = "idle" => l_tasks = l_hist

\* A goroutine of the first Run is executing its handler after the List
\* was reset, another pair was added and a second Run spawned it.
C16_Witness ==
    /\ kind = "List"
    /\ l_run.pc = "idle"
    /\ l_tasks = <<>>
    /\ Len(gs) = 2
    /\ gs[1].batch = 0
    /\ gs[2].batch = 1
    /\ gs[1].reg = [t |-> "t1", e |-> "h1"]
    /\ gs[2].reg = [t |-> "t2", e |-> "h2"]
    /\ gs[1].pc = "handler"
    /\ gs[1].hc[1].h = "h1"
    /\ gs[2].pc = "task"

\* C17: Chain.Run ranges over the sequence as it was when Run started.
\* While a Run is executing, an Add by the running task appends to c.tasks
\* but not to what Run ranges over, so the tasks invoked are never more
\* than, and always a prefix of, the tasks registered when Run was called;
\* and when Run has returned nil, c.tasks holds only what was added after
\* the reset: the tasks added during the Run are gone without having run.
C17_RunRangesOverSnapshot ==
    kind = "Chain" =>
        /\ c_run.pc # "idle" =>
              /\ c_run.range = c_run.reg
              /\ c_tasks = c_run.reg \o c_run.late
        /\ Len(c_log) <= Len(c_run.reg)
        /\ ChainInvoked = SubSeq(c_run.reg, 1, Len(c_log))
        /\ (ChainReturned /\ c_ret = Nil) =>
              /\ Len(c_log) = Len(c_run.reg)
              /\ c_tasks = c_hist
              /\ c_stale => c_tasks = <<>>

\* A Run of <<t1>> has returned nil; t1 added t2 while it ran; t2 was not
\* invoked and the Chain is empty.
C17_Witness ==
    /\ ChainReturned
    /\ c_ret = Nil
    /\ c_run.reg = <<"t1">>
    /\ c_run.late = <<"t2">>
    /\ ChainInvoked = <<"t1">>
    /\ c_tasks = <<>>

\* The Run is about to finish while the task added during it is still in
\* c.tasks, uninvoked.
C17_WitnessPending ==
    /\ kind = "Chain"
    /\ c_run.pc = "loop"
    /\ c_run.i > Len(c_run.range)
    /\ c_run.late # <<>>
    /\ Len(c_tasks) > Len(c_run.range)
====
